---- MODULE Spec2Model ----
(***************************************************************************)
(* jinko: the parsing constructs, the shunting-yard expression parser and  *)
(* the execution of a type instantiation.                                  *)
(*                                                                         *)
(* Source text is a sequence of one-character strings.  A parser is an     *)
(* operator from the remaining input to a nom IResult:                     *)
(*   Ok((rest, val))   [tag |-> "Ok", rest, val]                           *)
(*   Err(Err::Error)   [tag |-> "Error", msg, kind]     (recoverable)      *)
(*   Err(Err::Failure) [tag |-> "Failure", msg, kind]   (fatal)            *)
(***************************************************************************)
EXTENDS Integers, Sequences, FiniteSets, TLC

VARIABLES
    src,        \* the text handed to the parser under test
    expr,       \* the expression or call the text was written from (NoExpr for raw text)
    input,      \* ShuntingYard::parse: the local `input`, the text not yet consumed
    operators,  \* ShuntingYard.operators, top of the stack last
    output,     \* ShuntingYard.output, top of the stack last
    pc,         \* position in the operation under way
    result,     \* the IResult returned, NoResult until then
    types,      \* Interpreter: the registered TypeDecs, name -> field list
    inst,       \* the TypeInstantiation being built and executed
    ret,        \* what TypeInstantiation::execute or a builtin returned, NoResult until then
    type_id,    \* the TypeId under renaming
    call_args   \* the arguments of the call under way

vars == <<src, expr, input, operators, output, pc, result, types, inst, ret, type_id, call_args>>

(***************************************************************************)
(* Bounds                                                                  *)
(***************************************************************************)
MaxInput == 4    \* longest raw text handed to ShuntingYard::parse
MaxOps == 2      \* most operators in a generated infix expression
MaxText == 5     \* longest raw text handed to a Construct parser
MaxArgs == 3     \* most arguments in a generated function call
MaxFields == 3   \* most fields of a TypeDec or of a TypeInstantiation
MaxPad == 2      \* most spaces on one side of a call argument

(***************************************************************************)
(* nom results and combinators                                             *)
(***************************************************************************)
NoResult == [tag |-> "None"]
NoExpr == [kind |-> "None"]

NomOk(rest, val) == [tag |-> "Ok", rest |-> rest, val |-> val]
NomError(msg, kind) == [tag |-> "Error", msg |-> msg, kind |-> kind]
NomFailure(msg, kind) == [tag |-> "Failure", msg |-> msg, kind |-> kind]

None == [some |-> FALSE]
Some(v) == [some |-> TRUE, v |-> v]

Take(s, n) == SubSeq(s, 1, n)
Drop(s, n) == SubSeq(s, n + 1, Len(s))

\* nom::combinator::opt applied to the result r of a parser run on i:
\* a recoverable error becomes None with nothing consumed, a Failure passes.
Opt(r, i) ==
    IF r.tag = "Ok" THEN NomOk(r.rest, Some(r.val))
    ELSE IF r.tag = "Error" THEN NomOk(i, None)
    ELSE r

\* nom::branch::alt over two results: only a recoverable error lets the
\* second alternative be tried.
Alt(r1, r2) == IF r1.tag = "Error" THEN r2 ELSE r1

\* The `?` operator on an IResult: an Err returns from the function at once,
\* an Ok goes on with F.
Try(r, F(_)) == IF r.tag # "Ok" THEN r ELSE F(r)

(***************************************************************************)
(* Token: the lexer                                                        *)
(***************************************************************************)
DigitChars == {"0", "1", "2", "3", "4", "5", "6", "7", "8", "9"}
AlphaChars == {"a", "b", "c", "e", "f", "i", "l", "m", "n", "t", "u", "x", "y"}
SpaceChars == {" "}
OperatorChars == {"+", "-", "*", "/", "(", ")"}

RECURSIVE RunLen(_, _)
RunLen(s, S) ==
    IF s # <<>> /\ Head(s) \in S THEN 1 + RunLen(Tail(s), S) ELSE 0

RECURSIVE UntilLen(_, _)
UntilLen(s, c) ==
    IF s # <<>> /\ Head(s) # c THEN 1 + UntilLen(Tail(s), c) ELSE 0

DigitVal(c) ==
    CASE c = "0" -> 0 [] c = "1" -> 1 [] c = "2" -> 2 [] c = "3" -> 3
      [] c = "4" -> 4 [] c = "5" -> 5 [] c = "6" -> 6 [] c = "7" -> 7
      [] c = "8" -> 8 [] c = "9" -> 9

RECURSIVE ToNat(_)
ToNat(ds) ==
    IF ds = <<>> THEN 0
    ELSE 10 * ToNat(Take(ds, Len(ds) - 1)) + DigitVal(ds[Len(ds)])

Tag(c, kind, i) ==
    IF i # <<>> /\ Head(i) = c THEN NomOk(Tail(i), c) ELSE NomError(i, kind)

is_operator(c) == c \in OperatorChars

add(i) == Tag("+", "Tag", i)
sub(i) == Tag("-", "Tag", i)
mul(i) == Tag("*", "Tag", i)
div(i) == Tag("/", "Tag", i)
left_parenthesis(i) == Tag("(", "Tag", i)
right_parenthesis(i) == Tag(")", "Tag", i)
comma(i) == Tag(",", "Tag", i)

colon(i) == Tag(":", "Tag", i)
equal(i) == Tag("=", "Tag", i)
semicolon(i) == Tag(";", "Tag", i)

\* a string of characters at the start of the input
TagStr(t, i) ==
    IF Len(i) >= Len(t) /\ Take(i, Len(t)) = t THEN NomOk(Drop(i, Len(t)), t)
    ELSE NomError(i, "Tag")

arrow(i) == TagStr(<<"-", ">">>, i)

\* A keyword is a word of its own: the characters of the keyword followed
\* by whitespace, which it consumes.
Keyword(t, i) ==
    IF TagStr(t, i).tag = "Ok" /\ RunLen(Drop(i, Len(t)), SpaceChars) > 0
    THEN NomOk(Drop(i, Len(t) + RunLen(Drop(i, Len(t)), SpaceChars)), t)
    ELSE NomError(i, "Tag")

mut_tok(i) == Keyword(<<"m", "u", "t">>, i)
func_tok(i) == Keyword(<<"f", "u", "n", "c">>, i)

consume_whitespaces(i) ==
    IF RunLen(i, SpaceChars) = 0 THEN NomError(i, "TakeWhile1")
    ELSE NomOk(Drop(i, RunLen(i, SpaceChars)), <<>>)

maybe_consume_whitespaces(i) == NomOk(Drop(i, RunLen(i, SpaceChars)), <<>>)

\* Whitespace and comments; no text of the model holds a comment.
maybe_consume_extra(i) == maybe_consume_whitespaces(i)

identifier(i) ==
    LET n == RunLen(i, AlphaChars \cup DigitChars \cup {"_"})
    IN  IF n = 0 \/ Head(i) \in DigitChars
        THEN NomError(i, "TakeWhile1")
        ELSE NomOk(Drop(i, n), Take(i, n))

char_constant(i) ==
    IF Len(i) >= 3 /\ i[1] = "'" /\ i[3] = "'"
    THEN NomOk(Drop(i, 3), i[2])
    ELSE NomError(i, "Char")

string_constant(i) ==
    IF i # <<>> /\ Head(i) = "\""
    THEN LET n == UntilLen(Tail(i), "\"")
         IN  IF n + 2 <= Len(i)
             THEN NomOk(Drop(i, n + 2), SubSeq(i, 2, n + 1))
             ELSE NomError(i, "Char")
    ELSE NomError(i, "Char")

int_constant(i) ==
    LET n == RunLen(i, DigitChars)
    IN  IF n = 0 THEN NomError(i, "TakeWhile1")
        ELSE NomOk(Drop(i, n), ToNat(Take(i, n)))

float_constant(i) ==
    LET w == RunLen(i, DigitChars)
        f == RunLen(Drop(i, w + 1), DigitChars)
    IN  IF w > 0 /\ Len(i) > w /\ i[w + 1] = "." /\ f > 0
        THEN NomOk(Drop(i, w + 1 + f),
                   [whole |-> ToNat(Take(i, w)), frac |-> SubSeq(i, w + 2, w + 1 + f)])
        ELSE NomError(i, "TakeWhile1")

(***************************************************************************)
(* Construct: the grammar rules                                            *)
(***************************************************************************)
ConstChar(c) == [kind |-> "Constant", ck |-> "Char", cv |-> c]
ConstStr(s) == [kind |-> "Constant", ck |-> "Str", sv |-> s]
ConstInt(n) == [kind |-> "Constant", ck |-> "Int", iv |-> n]
ConstFloat(f) == [kind |-> "Constant", ck |-> "Float", fv |-> f]

\* constant_match with the arms of Int and Float reading each other's value
constant_match_crossed(rest, char_value, str_value, int_value, float_value) ==
    CASE char_value.some /\ ~str_value.some /\ ~int_value.some /\ ~float_value.some ->
            NomOk(rest, ConstChar(char_value.v))
      [] ~char_value.some /\ str_value.some /\ ~int_value.some /\ ~float_value.some ->
            NomOk(rest, ConstStr(str_value.v))
      [] ~char_value.some /\ ~str_value.some /\ ~int_value.some /\ float_value.some ->
            NomOk(rest, ConstInt(float_value.v))
      [] ~char_value.some /\ ~str_value.some /\ int_value.some /\ ~float_value.some ->
            NomOk(rest, ConstFloat(int_value.v))
      [] OTHER -> NomFailure("Not a valid constant", "OneOf")

\* constructs.rs:36-47, the match on the four optional values
constant_match(rest, char_value, str_value, int_value, float_value) ==
    CASE char_value.some /\ ~str_value.some /\ ~int_value.some /\ ~float_value.some ->
            NomOk(rest, ConstChar(char_value.v))
      [] ~char_value.some /\ str_value.some /\ ~int_value.some /\ ~float_value.some ->
            NomOk(rest, ConstStr(str_value.v))
      [] ~char_value.some /\ ~str_value.some /\ int_value.some /\ ~float_value.some ->
            NomOk(rest, ConstInt(int_value.v))
      [] ~char_value.some /\ ~str_value.some /\ ~int_value.some /\ float_value.some ->
            NomOk(rest, ConstFloat(float_value.v))
      [] OTHER -> NomFailure("Not a valid constant", "OneOf")

constant(i) ==
    Try(Opt(char_constant(i), i), LAMBDA c :
    Try(Opt(string_constant(c.rest), c.rest), LAMBDA s :
    Try(Opt(float_constant(s.rest), s.rest), LAMBDA f :
    Try(Opt(int_constant(f.rest), f.rest), LAMBDA n :
        constant_match(n.rest, c.val, s.val, n.val, f.val)))))

FunctionCallNew(name) == [kind |-> "FunctionCall", name |-> name, args |-> <<>>]
add_arg(call, a) == [call EXCEPT !.args = Append(@, a)]

function_call_no_args(i) ==
    Try(identifier(i), LAMBDA fn_id :
    Try(left_parenthesis(fn_id.rest), LAMBDA lp :
    Try(right_parenthesis(lp.rest), LAMBDA rp :
        NomOk(rp.rest, FunctionCallNew(fn_id.val)))))

arg(i) ==
    Try(maybe_consume_whitespaces(i), LAMBDA w1 :
    Try(constant(w1.rest), LAMBDA c :
    Try(maybe_consume_whitespaces(c.rest), LAMBDA w2 :
        NomOk(w2.rest, c.val))))

arg_and_comma(i) ==
    Try(arg(i), LAMBDA a :
    Try(comma(a.rest), LAMBDA k :
        NomOk(k.rest, a.val)))

\* nom::multi::many0(Construct::arg_and_comma): collect until a recoverable
\* error, which ends the list where the failed attempt began.
RECURSIVE many0_arg_and_comma(_, _)
many0_step(i, acc, r) ==
    IF r.tag = "Error" THEN NomOk(i, acc)
    ELSE IF r.tag = "Failure" THEN r
    ELSE many0_arg_and_comma(r.rest, Append(acc, r.val))

many0_arg_and_comma(i, acc) == many0_step(i, acc, arg_and_comma(i))

RECURSIVE AddArgs(_, _)
AddArgs(call, as) ==
    IF as = <<>> THEN call ELSE AddArgs(add_arg(call, Head(as)), Tail(as))

function_call_args(i) ==
    Try(identifier(i), LAMBDA fn_id :
    Try(left_parenthesis(fn_id.rest), LAMBDA lp :
    Try(many0_arg_and_comma(lp.rest, <<>>), LAMBDA arg_vec :
    Try(arg(arg_vec.rest), LAMBDA last_arg :
        NomOk(last_arg.rest,
              add_arg(AddArgs(FunctionCallNew(fn_id.val), arg_vec.val), last_arg.val))))))

\* function_call with the rule for one or more arguments tried first
function_call_args_first(i) == Alt(function_call_args(i), function_call_no_args(i))

function_call(i) == Alt(function_call_no_args(i), function_call_args(i))

VarAssignNew(mutable, symbol, value) ==
    [kind |-> "VarAssign", mutable |-> mutable, symbol |-> symbol, value |-> value]

\* var_assignment_match with both arms building an immutable assignment
var_assignment_match_immutable(rest, mut_opt, id, value) ==
    IF mut_opt.some THEN NomOk(rest, VarAssignNew(FALSE, id, value))
    ELSE NomOk(rest, VarAssignNew(FALSE, id, value))

\* constructs.rs:159-162, the match on the optional mut
var_assignment_match(rest, mut_opt, id, value) ==
    IF mut_opt.some THEN NomOk(rest, VarAssignNew(TRUE, id, value))
    ELSE NomOk(rest, VarAssignNew(FALSE, id, value))

\* var_assignment with the semicolon optional
var_assignment_optional_semicolon(i) ==
    Try(Opt(mut_tok(i), i), LAMBDA mut_opt :
    Try(maybe_consume_whitespaces(mut_opt.rest), LAMBDA w0 :
    Try(identifier(w0.rest), LAMBDA id :
    Try(Opt(consume_whitespaces(id.rest), id.rest), LAMBDA w1 :
    Try(equal(w1.rest), LAMBDA eq :
    Try(Opt(consume_whitespaces(eq.rest), eq.rest), LAMBDA w2 :
    Try(constant(w2.rest), LAMBDA c :
    Try(Opt(semicolon(c.rest), c.rest), LAMBDA sc :
        var_assignment_match(sc.rest, mut_opt.val, id.val, c.val)))))))))

var_assignment(i) ==
    Try(Opt(mut_tok(i), i), LAMBDA mut_opt :
    Try(maybe_consume_whitespaces(mut_opt.rest), LAMBDA w0 :
    Try(identifier(w0.rest), LAMBDA id :
    Try(Opt(consume_whitespaces(id.rest), id.rest), LAMBDA w1 :
    Try(equal(w1.rest), LAMBDA eq :
    Try(Opt(consume_whitespaces(eq.rest), eq.rest), LAMBDA w2 :
    Try(constant(w2.rest), LAMBDA c :
    Try(semicolon(c.rest), LAMBDA sc :
        var_assignment_match(sc.rest, mut_opt.val, id.val, c.val)))))))))

\* todo!(): the call panics
Panic(msg) == [tag |-> "Panic", msg |-> msg]
block(i) == Panic("not yet implemented")

FunctionDecArgNew(name, ty) == [name |-> name, ty |-> ty]

args_dec_empty(i) ==
    Try(left_parenthesis(i), LAMBDA lp :
    Try(maybe_consume_whitespaces(lp.rest), LAMBDA w :
    Try(right_parenthesis(w.rest), LAMBDA rp :
        NomOk(rp.rest, <<>>))))

identifier_type(i) ==
    Try(identifier(i), LAMBDA id :
    Try(maybe_consume_whitespaces(id.rest), LAMBDA w1 :
    Try(colon(w1.rest), LAMBDA c :
    Try(maybe_consume_whitespaces(c.rest), LAMBDA w2 :
    Try(identifier(w2.rest), LAMBDA ty :
        NomOk(ty.rest, FunctionDecArgNew(id.val, ty.val)))))))

identifier_type_comma(i) ==
    Try(maybe_consume_whitespaces(i), LAMBDA w1 :
    Try(identifier_type(w1.rest), LAMBDA a :
    Try(maybe_consume_whitespaces(a.rest), LAMBDA w2 :
    Try(comma(w2.rest), LAMBDA k :
        NomOk(k.rest, a.val)))))

\* nom::multi::many0(Construct::identifier_type_comma)
RECURSIVE many0_identifier_type_comma(_, _)
many0_type_step(i, acc, r) ==
    IF r.tag = "Error" THEN NomOk(i, acc)
    ELSE IF r.tag = "Failure" THEN r
    ELSE many0_identifier_type_comma(r.rest, Append(acc, r.val))

many0_identifier_type_comma(i, acc) == many0_type_step(i, acc, identifier_type_comma(i))

\* args_dec_non_empty with the last argument optional
args_dec_non_empty_optional_last(i) ==
    Try(left_parenthesis(i), LAMBDA lp :
    Try(maybe_consume_whitespaces(lp.rest), LAMBDA w1 :
    Try(many0_identifier_type_comma(w1.rest, <<>>), LAMBDA args :
    Try(maybe_consume_whitespaces(args.rest), LAMBDA w2 :
    Try(Opt(identifier_type(w2.rest), w2.rest), LAMBDA last_arg :
    Try(right_parenthesis(last_arg.rest), LAMBDA rp :
        NomOk(rp.rest, IF last_arg.val.some THEN Append(args.val, last_arg.val.v)
                       ELSE args.val)))))))

args_dec_non_empty(i) ==
    Try(left_parenthesis(i), LAMBDA lp :
    Try(maybe_consume_whitespaces(lp.rest), LAMBDA w1 :
    Try(many0_identifier_type_comma(w1.rest, <<>>), LAMBDA args :
    Try(maybe_consume_whitespaces(args.rest), LAMBDA w2 :
    Try(identifier_type(w2.rest), LAMBDA last_arg :
    Try(right_parenthesis(last_arg.rest), LAMBDA rp :
        NomOk(rp.rest, Append(args.val, last_arg.val))))))))

args_dec(i) == Alt(args_dec_empty(i), args_dec_non_empty(i))

\* constructs.rs:225-228, the match on the optional arrow
return_type_void_match(rest, arrow_opt) ==
    IF arrow_opt.some THEN NomError(rest, "OneOf") ELSE NomOk(rest, None)

\* return_type_void with the arrow, when there is one, left unread
return_type_void_any(i) ==
    Try(maybe_consume_whitespaces(i), LAMBDA w : NomOk(w.rest, None))

return_type_void(i) ==
    Try(maybe_consume_whitespaces(i), LAMBDA w :
    Try(Opt(arrow(w.rest), w.rest), LAMBDA a :
        return_type_void_match(a.rest, a.val)))

return_type_non_void(i) ==
    Try(maybe_consume_whitespaces(i), LAMBDA w1 :
    Try(arrow(w1.rest), LAMBDA a :
    Try(maybe_consume_whitespaces(a.rest), LAMBDA w2 :
    Try(identifier(w2.rest), LAMBDA ty :
        NomOk(ty.rest, Some(ty.val))))))

return_type(i) == Alt(return_type_non_void(i), return_type_void(i))

FunctionDecNew(name, ty) ==
    [kind |-> "FunctionDec", name |-> name, ty |-> ty, args |-> <<>>, block |-> None]
set_args(function, args) == [function EXCEPT !.args = args]
set_block(function, b) == [function EXCEPT !.block = Some(b)]

function_declaration(i) ==
    Try(func_tok(i), LAMBDA kw :
    Try(maybe_consume_whitespaces(kw.rest), LAMBDA w1 :
    Try(identifier(w1.rest), LAMBDA fn_name :
    Try(maybe_consume_whitespaces(fn_name.rest), LAMBDA w2 :
    Try(args_dec(w2.rest), LAMBDA args :
    Try(block(args.rest), LAMBDA b :
        NomOk(b.rest,
              set_block(set_args(FunctionDecNew(fn_name.val, Some(<<>>)), args.val),
                        b.val))))))))

(***************************************************************************)
(* Instructions built by the parsers                                       *)
(***************************************************************************)
BinaryOpNew(lhs, rhs, op) == [kind |-> "BinaryOp", lhs |-> lhs, rhs |-> rhs, op |-> op]
VarNew(name) == [kind |-> "Var", name |-> name]

\* BoxConstruct boxes what the Construct rule of the same name returns.
box_function_call(i) == function_call(i)

box_variable(i) == Try(identifier(i), LAMBDA id : NomOk(id.rest, VarNew(id.val)))

(***************************************************************************)
(* Operator                                                                *)
(***************************************************************************)
OperatorNew(c) ==
    CASE c = "+" -> "Add" [] c = "-" -> "Sub" [] c = "*" -> "Mul" [] c = "/" -> "Div"
      [] c = "(" -> "LeftParenthesis" [] c = ")" -> "RightParenthesis"

precedence(op) ==
    CASE op \in {"Mul", "Div"} -> 3
      [] op \in {"Add", "Sub"} -> 2
      [] OTHER -> 0

is_left_associative(op) == op \in {"Add", "Sub", "Mul", "Div"}

(***************************************************************************)
(* utils: Stack and Queue, both used as stacks, the top last               *)
(***************************************************************************)
is_empty(s) == s = <<>>
peek(s) == IF s = <<>> THEN None ELSE Some(s[Len(s)])
push(s, x) == Append(s, x)
pop(s) == Take(s, Len(s) - 1)

(***************************************************************************)
(* ShuntingYard.  A method returns [res |-> its IResult, sy |-> the parser *)
(* as the call left it]: what a failed call popped stays popped.           *)
(***************************************************************************)
ShuntingYardNew == [operators |-> <<>>, output |-> <<>>]

SyResult(res, sy) == [res |-> res, sy |-> sy]
SyOk(rest, sy) == SyResult(NomOk(rest, <<>>), sy)

\* The `?` operator on the result of a method of the parser.
TrySy(r, F(_)) == IF r.res.tag # "Ok" THEN r ELSE F(r)

InvalidBinaryExpression == NomError("Invalid binary expression", "OneOf")

\* reduce_output with the two operands exchanged
reduce_output_swapped(sy) ==
    IF is_empty(sy.output) THEN SyResult(InvalidBinaryExpression, sy)
    ELSE IF Len(sy.output) = 1
    THEN SyResult(InvalidBinaryExpression, [sy EXCEPT !.output = pop(@)])
    ELSE IF is_empty(sy.operators)
    THEN SyResult(InvalidBinaryExpression, [sy EXCEPT !.output = pop(pop(@))])
    ELSE SyOk(<<>>,
              [operators |-> pop(sy.operators),
               output |-> push(pop(pop(sy.output)),
                               BinaryOpNew(peek(sy.output).v,
                                           peek(pop(sy.output)).v,
                                           peek(sy.operators).v))])

reduce_output(sy) ==
    IF is_empty(sy.output) THEN SyResult(InvalidBinaryExpression, sy)
    ELSE IF Len(sy.output) = 1
    THEN SyResult(InvalidBinaryExpression, [sy EXCEPT !.output = pop(@)])
    ELSE IF is_empty(sy.operators)
    THEN SyResult(InvalidBinaryExpression, [sy EXCEPT !.output = pop(pop(@))])
    ELSE SyOk(<<>>,
              [operators |-> pop(sy.operators),
               output |-> push(pop(pop(sy.output)),
                               BinaryOpNew(peek(pop(sy.output)).v,
                                           peek(sy.output).v,
                                           peek(sy.operators).v))])

\* reduce_while_higher with the comparison of precedences inverted
RECURSIVE reduce_while_lower(_, _)
reduce_while_lower(sy, op) ==
    IF ~is_empty(sy.operators)
       /\ (precedence(peek(sy.operators).v) < precedence(op)
           \/ (precedence(peek(sy.operators).v) = precedence(op)
               /\ is_left_associative(op)))
    THEN TrySy(reduce_output(sy), LAMBDA r : reduce_while_lower(r.sy, op))
    ELSE SyOk(<<>>, sy)

\* shunting_yard.rs:76-82, the loop run for an incoming + - * /
RECURSIVE reduce_while_higher(_, _)
reduce_while_higher(sy, op) ==
    IF ~is_empty(sy.operators)
       /\ (precedence(peek(sy.operators).v) > precedence(op)
           \/ (precedence(peek(sy.operators).v) = precedence(op)
               /\ is_left_associative(op)))
    THEN TrySy(reduce_output(sy), LAMBDA r : reduce_while_higher(r.sy, op))
    ELSE SyOk(<<>>, sy)

\* shunting_yard.rs:87-89, the loop run for an incoming )
RECURSIVE reduce_until_left_parenthesis(_)
reduce_until_left_parenthesis(sy) ==
    IF peek(sy.operators) # Some("LeftParenthesis")
    THEN TrySy(reduce_output(sy), LAMBDA r : reduce_until_left_parenthesis(r.sy))
    ELSE SyOk(<<>>, sy)

\* shunting_yard.rs:91-99, the match after the loop
pop_left_parenthesis(sy, rest) ==
    IF peek(sy.operators) = Some("LeftParenthesis")
    THEN SyOk(rest, [sy EXCEPT !.operators = pop(@)])
    ELSE SyResult(NomError("Unclosed right parenthesis", "OneOf"), sy)

\* shunting_yard.rs:72-102, the operator read is op and the input left is rest
operator_push(sy, op, rest) ==
    IF op # "LeftParenthesis" /\ op # "RightParenthesis"
    THEN TrySy(reduce_while_higher(sy, op), LAMBDA r :
             SyOk(rest, [r.sy EXCEPT !.operators = push(@, op)]))
    ELSE IF op = "LeftParenthesis"
    THEN SyOk(rest, [sy EXCEPT !.operators = push(@, op)])
    ELSE TrySy(reduce_until_left_parenthesis(sy), LAMBDA r :
             pop_left_parenthesis(r.sy, rest))

operator_token(i) ==
    Alt(add(i), Alt(sub(i), Alt(mul(i), Alt(div(i),
    Alt(left_parenthesis(i), right_parenthesis(i))))))

operator(sy, i) ==
    TrySy(SyResult(maybe_consume_extra(i), sy), LAMBDA e1 :
    TrySy(SyResult(operator_token(e1.res.rest), sy), LAMBDA tok :
    TrySy(SyResult(maybe_consume_extra(tok.res.rest), sy), LAMBDA e2 :
        operator_push(sy, OperatorNew(tok.res.val), e2.res.rest))))

operand_expr(i) == Alt(box_function_call(i), Alt(constant(i), box_variable(i)))

operand(sy, i) ==
    TrySy(SyResult(operand_expr(i), sy), LAMBDA e :
        SyOk(e.res.rest, [sy EXCEPT !.output = push(@, e.res.val)]))

handle_token(sy, i) ==
    TrySy(SyResult(maybe_consume_extra(i), sy), LAMBDA e1 :
        IF e1.res.rest = <<>>
        THEN SyResult(NomError("Not a valid binary expression", "OneOf"), sy)
        ELSE TrySy(IF is_operator(Head(e1.res.rest))
                   THEN operator(sy, e1.res.rest)
                   ELSE operand(sy, e1.res.rest), LAMBDA t :
             TrySy(SyResult(maybe_consume_extra(t.res.rest), t.sy), LAMBDA e2 :
                 SyOk(e2.res.rest, t.sy))))

(***************************************************************************)
(* The texts given to ShuntingYard::parse                                  *)
(***************************************************************************)
BinaryOperators == {"Add", "Sub", "Mul", "Div"}
OperandValues == {1, 2, 3}
SYChars == {"1", "2", "+", "*", "(", ")", " ", "x"}

Texts(chars, n) == UNION {[1..k -> chars] : k \in 0..n}

\* the infix expressions with exactly k operators
RECURSIVE ExprsWith(_)
ExprsWith(k) ==
    IF k = 0 THEN {ConstInt(n) : n \in OperandValues}
    ELSE UNION {{BinaryOpNew(l, r, op) :
                    l \in ExprsWith(j), r \in ExprsWith(k - 1 - j), op \in BinaryOperators} :
                j \in 0..(k - 1)}

Exprs == UNION {ExprsWith(k) : k \in 0..MaxOps}

OperatorChar(op) ==
    CASE op = "Add" -> "+" [] op = "Sub" -> "-" [] op = "Mul" -> "*" [] op = "Div" -> "/"

DigitChar(d) == <<"0", "1", "2", "3", "4", "5", "6", "7", "8", "9">>[d + 1]

RECURSIVE Decimal(_)
Decimal(n) ==
    IF n < 10 THEN <<DigitChar(n)>> ELSE Append(Decimal(n \div 10), DigitChar(n % 10))

Parenthesized(t) == <<"(">> \o t \o <<")">>

\* The text of an expression.  all: every binary operand is parenthesized,
\* otherwise only those that standard precedence and left associativity
\* require; spaced: one space on each side of an operator.
InfixOperand(t, parenthesize) == IF parenthesize THEN Parenthesized(t) ELSE t
InfixOperator(op, spaced) ==
    IF spaced THEN <<" ", OperatorChar(op), " ">> ELSE <<OperatorChar(op)>>

RECURSIVE Infix(_, _, _)
Infix(e, all, spaced) ==
    IF e.kind = "Constant" THEN Decimal(e.iv)
    ELSE InfixOperand(Infix(e.lhs, all, spaced),
                      e.lhs.kind = "BinaryOp"
                      /\ (all \/ precedence(e.lhs.op) < precedence(e.op)))
         \o InfixOperator(e.op, spaced)
         \o InfixOperand(Infix(e.rhs, all, spaced),
                         e.rhs.kind = "BinaryOp"
                         /\ (all \/ precedence(e.rhs.op) <= precedence(e.op)))

(***************************************************************************)
(* ShuntingYard::parse, one action per call of handle_token and per        *)
(* reduction of the final drain                                            *)
(***************************************************************************)
\* the operands 1 2 ... k, a space between two of them
RECURSIVE OperandRun(_)
OperandRun(k) ==
    IF k = 1 THEN <<"1">> ELSE OperandRun(k - 1) \o <<" ">> \o Decimal(k)

InitSY ==
    /\ \/ /\ expr \in Exprs
          /\ \E all \in BOOLEAN, spaced \in BOOLEAN : src = Infix(expr, all, spaced)
       \/ /\ expr = NoExpr
          /\ src \in Texts(SYChars, MaxInput)
       \/ /\ expr = NoExpr
          /\ \E k \in 1..MaxInput : src = OperandRun(k) \o <<")">>
    /\ input = src
    /\ operators = <<>>
    /\ output = <<>>
    /\ pc = "first"
    /\ result = NoResult
    /\ types = <<>>
    /\ inst = NoExpr
    /\ ret = NoResult
    /\ type_id = NoExpr
    /\ call_args = <<>>

Return(sy, r) ==
    /\ operators' = sy.operators
    /\ output' = sy.output
    /\ result' = r
    /\ pc' = "done"
    /\ UNCHANGED <<src, expr, input, types, inst, ret, type_id, call_args>>

Continue(sy, i, next) ==
    /\ operators' = sy.operators
    /\ output' = sy.output
    /\ input' = i
    /\ pc' = next
    /\ UNCHANGED <<src, expr, result, types, inst, ret, type_id, call_args>>

\* shunting_yard.rs:153-162, the match on the first token
parse_first(r) ==
    IF r.res.tag = "Error"
    THEN Return(r.sy, NomError("Not a valid binary expression", "Many1"))
    ELSE IF r.res.tag = "Failure" THEN Return(r.sy, r.res)
    ELSE Continue(r.sy, r.res.rest, "loop")

ParseFirst ==
    /\ pc = "first"
    /\ parse_first(handle_token(ShuntingYardNew, input))

\* parse_loop with the input left where it was after a token
parse_loop_same_input(r) ==
    IF r.res.tag = "Error" /\ r.res.kind = "OneOf"
    THEN Continue(r.sy, input, "drain")
    ELSE IF r.res.tag # "Ok" THEN Return(r.sy, r.res)
    ELSE IF r.res.rest = input THEN Continue(r.sy, input, "drain")
    ELSE Continue(r.sy, input, "loop")

\* shunting_yard.rs:164-177, the match in one turn of the token loop
parse_loop(r) ==
    IF r.res.tag = "Error" /\ r.res.kind = "OneOf"
    THEN Continue(r.sy, input, "drain")
    ELSE IF r.res.tag # "Ok" THEN Return(r.sy, r.res)
    ELSE IF r.res.rest = input THEN Continue(r.sy, input, "drain")
    ELSE Continue(r.sy, r.res.rest, "loop")

ParseLoop ==
    /\ pc = "loop"
    /\ parse_loop(handle_token([operators |-> operators, output |-> output], input))

\* shunting_yard.rs:181-183, one turn of the final drain
parse_drain(r) ==
    IF r.res.tag # "Ok" THEN Return(r.sy, r.res) ELSE Continue(r.sy, input, "drain")

ParseDrain ==
    /\ pc = "drain"
    /\ ~is_empty(operators)
    /\ parse_drain(reduce_output([operators |-> operators, output |-> output]))

\* shunting_yard.rs:185-192, the value returned
ParseReturn ==
    /\ pc = "drain"
    /\ is_empty(operators)
    /\ IF peek(output).some
       THEN Return([operators |-> operators, output |-> pop(output)],
                   NomOk(input, peek(output).v))
       ELSE Return([operators |-> operators, output |-> output], InvalidBinaryExpression)

NextSY == ParseFirst \/ ParseLoop \/ ParseDrain \/ ParseReturn

Spec == InitSY /\ [][NextSY]_vars

\* A call of parse that has not returned goes on, the program being
\* sequential: the weak fairness WF_vars(NextSY), written with the enabling
\* condition of NextSY, which is that parse has not returned.
SpecLive == InitSY /\ [][NextSY]_vars /\ ([]<>(pc = "done") \/ []<><<NextSY>>_vars)

(***************************************************************************)
(* Properties of ShuntingYard::parse                                       *)
(***************************************************************************)
Done == pc = "done"
Text(t) == src = t
IsExpr == expr.kind \in {"Constant", "BinaryOp"}

IsChain ==
    /\ expr.kind = "BinaryOp"
    /\ expr.lhs.kind = "BinaryOp"
    /\ expr.lhs.lhs.kind = "Constant"
    /\ expr.lhs.rhs.kind = "Constant"
    /\ expr.rhs.kind = "Constant"
    /\ precedence(expr.op) = precedence(expr.lhs.op)
    /\ \A k \in 1..Len(src) : src[k] \notin {"(", ")"}

\* C2: a reduction of the final drain replaces the two top output nodes by a
\* node whose left operand is the lower (second popped) and whose right
\* operand is the upper (first popped) of them, and a chain a op1 b op2 c of
\* equal-precedence operators parses to op2(op1(a, b), c).
C2_LeftAssociative ==
    /\ [][(pc = "drain" /\ pc' = "drain") =>
            /\ Len(output) >= 2
            /\ output' = Append(SubSeq(output, 1, Len(output) - 2),
                                [kind |-> "BinaryOp",
                                 lhs |-> output[Len(output) - 1],
                                 rhs |-> output[Len(output)],
                                 op |-> operators[Len(operators)]])]_vars
    /\ []((Done /\ IsChain) =>
            /\ result.tag = "Ok"
            /\ result.val.op = expr.op
            /\ result.val.rhs = expr.rhs
            /\ result.val.lhs =
                 [kind |-> "BinaryOp", lhs |-> expr.lhs.lhs,
                  rhs |-> expr.lhs.rhs, op |-> expr.lhs.op])

C2_Witness ==
    /\ Done
    /\ IsChain
    /\ Text(<<"1", " ", "+", " ", "2", " ", "+", " ", "3">>)
    /\ result.tag = "Ok"
    /\ result.val.lhs = BinaryOpNew(ConstInt(1), ConstInt(2), "Add")
    /\ result.val.rhs = ConstInt(3)

\* the number of ( left open at the end of t, a ) closing the last open (
RECURSIVE OpenCount(_, _)
OpenCount(t, d) ==
    IF t = <<>> THEN d
    ELSE IF Head(t) = "(" THEN OpenCount(Tail(t), d + 1)
    ELSE IF Head(t) = ")" /\ d > 0 THEN OpenCount(Tail(t), d - 1)
    ELSE OpenCount(Tail(t), d)

\* C3: the empty text and every text with a ( that no ) closes make
\* ShuntingYard::parse fail: it returns no tree.
C3_UnbalancedFails ==
    (Done /\ (src = <<>> \/ OpenCount(src, 0) > 0)) => result.tag # "Ok"

\* the character the next call of handle_token dispatches on
NextChar ==
    IF maybe_consume_extra(input).rest = <<>> THEN "" ELSE Head(maybe_consume_extra(input).rest)

ReadsUnmatchedRight ==
    /\ pc \in {"first", "loop"}
    /\ NextChar = ")"
    /\ \A k \in 1..Len(operators) : operators[k] # "LeftParenthesis"

\* C4: reading a ) while the operator stack holds no ( ends the parse with
\* the fatal failure "Unclosed right parenthesis".
C4_UnclosedRightIsFatal ==
    [][ReadsUnmatchedRight =>
         /\ pc' = "done"
         /\ result'.tag = "Failure"
         /\ result'.msg = "Unclosed right parenthesis"]_vars

\* C5: a parse that succeeds leaves no node on the output stack besides the
\* one it returns.
C5_ExactlyOneNode ==
    (Done /\ result.tag = "Ok") => output = <<>>

\* the text starts with an identifier that is neither a call nor a literal
BareIdentifierFirst ==
    /\ identifier(src).tag = "Ok"
    /\ left_parenthesis(identifier(src).rest).tag # "Ok"

\* C6: at an operand position a bare identifier is read as a variable
\* reference, which is pushed on the output stack.
C6_VariableOperand ==
    [][(pc = "first" /\ BareIdentifierFirst) =>
         /\ pc' = "loop"
         /\ output' = <<VarNew(identifier(src).val)>>]_vars

\* the parser as the state holds it
Sy == [operators |-> operators, output |-> output]

\* the step under way calls a reduce_output that fails
ReductionFails ==
    \/ /\ pc \in {"first", "loop"}
       /\ handle_token(IF pc = "first" THEN ShuntingYardNew ELSE Sy, input).res
              = InvalidBinaryExpression
    \/ /\ pc = "drain"
       /\ ~is_empty(operators)
       /\ reduce_output(Sy).res.tag # "Ok"

\* what ShuntingYard::parse returns once its token loop is left with the
\* parser sy (shunting_yard.rs:181-192): the tag of the result
RECURSIVE ReturnedTag(_)
ReturnedTagStep(r) ==
    IF r.res.tag # "Ok" THEN r.res.tag ELSE ReturnedTag(r.sy)

ReturnedTag(sy) ==
    IF is_empty(sy.operators)
    THEN IF peek(sy.output).some THEN "Ok" ELSE "Error"
    ELSE ReturnedTagStep(reduce_output(sy))

\* C19: a reduction that lacks an operand or an operator fails with a
\* recoverable error, and a call of ShuntingYard::parse in which a reduction
\* fails returns a recoverable error to its caller: at that step, or at the
\* end of the call if the call goes on.
C19_ReductionErrorReturned ==
    /\ []((Len(output) < 2 \/ is_empty(operators)) => reduce_output(Sy).res.tag = "Error")
    /\ [][ReductionFails =>
            \/ pc' = "done" /\ result'.tag = "Error"
            \/ pc' = "drain" /\ ReturnedTag(Sy') = "Error"]_vars

\* every chain of reductions from sy shrinks both stacks at each reduction
\* and ends with a recoverable error
RECURSIVE ReductionsShrink(_)
ReductionsShrinkStep(sy, r) ==
    IF r.res.tag # "Ok" THEN r.res.tag = "Error"
    ELSE /\ Len(r.sy.operators) < Len(sy.operators)
         /\ Len(r.sy.output) < Len(sy.output)
         /\ ReductionsShrink(r.sy)

ReductionsShrink(sy) == ReductionsShrinkStep(sy, reduce_output(sy))

\* C20: ShuntingYard::parse returns on every input: a turn of the token loop
\* that stays in the loop shortens the input, a turn of the final drain that
\* stays in it shrinks both stacks, every reduction shrinks both stacks or
\* fails, and a ) read with an empty operator stack ends the call of
\* handle_token with an error.
C20_Terminates ==
    /\ <>Done
    /\ [][(pc = "loop" /\ pc' = "loop") => Len(input') < Len(input)]_vars
    /\ [][(pc = "drain" /\ pc' = "drain") =>
            (Len(operators') < Len(operators) /\ Len(output') < Len(output))]_vars
    /\ [](ReductionsShrink(Sy))
    /\ []((pc \in {"first", "loop"} /\ NextChar = ")" /\ is_empty(operators)) =>
            handle_token(Sy, input).res.tag = "Error")

\* 1) has been read to its end: the ) met an empty operator stack
C20_Witness ==
    /\ Done
    /\ Text(<<"1", ")">>)
    /\ input = <<")">>
    /\ is_empty(operators)

\* the tree holds a binary-operation node whose operator is a parenthesis
RECURSIVE HasParenthesisNode(_)
HasParenthesisNode(tree) ==
    /\ tree.kind = "BinaryOp"
    /\ \/ tree.op \in {"LeftParenthesis", "RightParenthesis"}
       \/ HasParenthesisNode(tree.lhs)
       \/ HasParenthesisNode(tree.rhs)

\* C21: no tree that a successful ShuntingYard::parse returns holds a
\* binary-operation node whose operator is LeftParenthesis or RightParenthesis.
C21_NoParenthesisNode ==
    (Done /\ result.tag = "Ok") => ~HasParenthesisNode(result.val)

(***************************************************************************)
(* The texts given to the Construct parsers                                *)
(***************************************************************************)
ConstructChars == {"1", ".", "'", "\"", "a", " "}
CallChars == {"f", "(", ")", "1", ","}
ReturnChars == {" ", "-", ">", "a", "1"}
ArgConstants == {ConstInt(1), ConstStr(<<"a">>)}
CallNames == {<<"f", "n">>}

Spaces(n) == [k \in 1..n |-> " "]

ConstantText(c) ==
    CASE c.ck = "Int" -> Decimal(c.iv)
      [] c.ck = "Float" -> Decimal(c.fv.whole) \o <<".">> \o c.fv.frac
      [] c.ck = "Char" -> <<"'", c.cv, "'">>
      [] c.ck = "Str" -> <<"\"">> \o c.sv \o <<"\"">>

\* a1, ..., aN, the k-th with before[k] spaces before it and after[k] after it
RECURSIVE ArgsText(_, _, _, _)
ArgsText(args, before, after, k) ==
    IF k > Len(args) THEN <<>>
    ELSE Spaces(before[k]) \o ConstantText(args[k]) \o Spaces(after[k])
         \o (IF k < Len(args) THEN <<",">> ELSE <<>>)
         \o ArgsText(args, before, after, k + 1)

CallText(call, before, after) ==
    call.name \o <<"(">> \o ArgsText(call.args, before, after, 1) \o <<")">>

Calls ==
    {[kind |-> "FunctionCall", name |-> name, args |-> args] :
        name \in CallNames, args \in Texts(ArgConstants, MaxArgs)}

\* the typed arguments of a declaration
DecArgValues ==
    {[name |-> <<"a">>, ty |-> <<"i", "n", "t">>], [name |-> <<"b">>, ty |-> <<"x">>]}
ArgsDecs == {[kind |-> "ArgsDec", args |-> args] : args \in Texts(DecArgValues, MaxArgs)}
Pads == [1..4 -> {0, MaxPad}]

\* name: type, ..., with pad[1] spaces before a name, pad[2] before the
\* colon, pad[3] after it and pad[4] before a comma
RECURSIVE DecArgsText(_, _, _)
DecArgsText(args, pad, k) ==
    IF k > Len(args) THEN <<>>
    ELSE Spaces(pad[1]) \o args[k].name \o Spaces(pad[2]) \o <<":">> \o Spaces(pad[3])
         \o args[k].ty
         \o (IF k < Len(args) THEN Spaces(pad[4]) \o <<",">> ELSE <<>>)
         \o DecArgsText(args, pad, k + 1)

ArgsDecText(dec, pad) == <<"(">> \o DecArgsText(dec.args, pad, 1) \o <<")">>

\* a list closed by ) written with a comma after its last argument
Dangling(list) == [kind |-> "Dangling", list |-> list]
\* the text t of a list with a comma and n spaces before its closing )
DanglingText(t, n) == Take(t, Len(t) - 1) \o <<",">> \o Spaces(n) \o <<")">>

\* [word] symbol = value [;]
Mut == <<"m", "u", "t">>
Mutable == <<"m", "u", "t", "a", "b", "l", "e">>
AssignSymbols == {<<"x">>, <<"m", "u", "t", "_", "x">>}
AssignValues ==
    {ConstInt(12), ConstFloat([whole |-> 1, frac |-> <<"5">>]), ConstChar("a"),
     ConstStr(<<"a">>)}
Assigns ==
    {[kind |-> "Assign", word |-> w, symbol |-> id, value |-> v, semicolon |-> sc] :
        w \in {<<>>, Mut, Mutable}, id \in AssignSymbols, v \in AssignValues,
        sc \in BOOLEAN}

\* the text of a, with gap spaces after its first word and before and after
\* spaces around the =
AssignText(a, gap, before, after) ==
    (IF a.word = <<>> THEN <<>> ELSE a.word \o Spaces(gap))
    \o a.symbol \o Spaces(before) \o <<"=">> \o Spaces(after) \o ConstantText(a.value)
    \o (IF a.semicolon THEN <<";">> ELSE <<>>)

\* func name(arguments) [-> type] { }
FunctionDecs ==
    {[kind |-> "FunctionDec", name |-> <<"f">>, args |-> dec.args, ty |-> ty] :
        dec \in ArgsDecs, ty \in {None, Some(<<"i", "n", "t">>)}}

FunctionDecText(f, pad) ==
    <<"f", "u", "n", "c", " ">> \o f.name \o ArgsDecText(f, pad)
    \o (IF f.ty.some THEN <<" ", "-", ">", " ">> \o f.ty.v ELSE <<>>)
    \o <<" ", "{", " ", "}">>

InitConstruct ==
    /\ \/ /\ expr \in Calls
          /\ \E before \in [1..Len(expr.args) -> {0, MaxPad}],
                after \in [1..Len(expr.args) -> {0, MaxPad}] :
                src = CallText(expr, before, after)
       \/ \E call \in Calls, n \in {0, MaxPad} :
             /\ call.args # <<>>
             /\ expr = Dangling(call)
             /\ src = DanglingText(CallText(call, [k \in 1..Len(call.args) |-> 0],
                                             [k \in 1..Len(call.args) |-> 0]), n)
       \/ /\ expr \in ArgsDecs
          /\ \E pad \in Pads : src = ArgsDecText(expr, pad)
       \/ \E dec \in ArgsDecs, pad \in Pads, n \in {0, MaxPad} :
             /\ dec.args # <<>>
             /\ expr = Dangling(dec)
             /\ src = DanglingText(ArgsDecText(dec, pad), n)
       \/ /\ expr \in FunctionDecs
          /\ \E pad \in Pads : src = FunctionDecText(expr, pad)
       \/ /\ expr \in Assigns
          /\ \E gap \in {1, MaxPad}, before \in {0, MaxPad}, after \in {0, MaxPad} :
                src = AssignText(expr, gap, before, after)
       \/ /\ expr = NoExpr
          /\ src \in Texts(ConstructChars, MaxText) \cup Texts(CallChars, MaxText)
                     \cup Texts(ReturnChars, MaxText)
    /\ input = src
    /\ operators = <<>>
    /\ output = <<>>
    /\ pc = "construct"
    /\ result = NoResult
    /\ types = <<>>
    /\ inst = NoExpr
    /\ ret = NoResult
    /\ type_id = NoExpr
    /\ call_args = <<>>

Returned(r, rule) ==
    /\ result' = r
    /\ pc' = rule
    /\ UNCHANGED <<src, expr, input, operators, output, types, inst, ret, type_id, call_args>>

CallConstant == pc = "construct" /\ Returned(constant(src), "constant")

CallFunctionCall == pc = "construct" /\ Returned(function_call(src), "function_call")

CallFunctionCallArgs ==
    pc = "construct" /\ Returned(function_call_args(src), "function_call_args")

CallArgsDecNonEmpty ==
    pc = "construct" /\ Returned(args_dec_non_empty(src), "args_dec_non_empty")

CallVarAssignment ==
    pc = "construct" /\ Returned(var_assignment(src), "var_assignment")

CallFunctionDeclaration ==
    pc = "construct" /\ Returned(function_declaration(src), "function_declaration")

CallReturnType ==
    pc = "construct" /\ Returned(return_type(src), "return_type")

NextConstruct ==
    \/ CallConstant
    \/ CallReturnType
    \/ CallFunctionDeclaration
    \/ CallVarAssignment
    \/ CallFunctionCall
    \/ CallFunctionCallArgs
    \/ CallArgsDecNonEmpty

SpecConstruct == InitConstruct /\ [][NextConstruct]_vars

(***************************************************************************)
(* Properties of the Construct parsers                                     *)
(***************************************************************************)
CharAtStart(t) == char_constant(t).tag = "Ok"
StrAtStart(t) == string_constant(t).tag = "Ok"
FloatAtStart(t) == float_constant(t).tag = "Ok"
IntAtStart(t) == int_constant(t).tag = "Ok"

\* the forms of which the text begins with a literal, the digits that begin
\* a float literal not counting as an int literal
FormsAtStart(t) ==
    {k \in {"Char", "Str", "Float", "Int"} :
        \/ k = "Char" /\ CharAtStart(t)
        \/ k = "Str" /\ StrAtStart(t)
        \/ k = "Float" /\ FloatAtStart(t)
        \/ k = "Int" /\ IntAtStart(t) /\ ~FloatAtStart(t)}

C10_CallArguments ==
    (pc = "function_call" /\ expr.kind = "FunctionCall") =>
        /\ result.tag = "Ok"
        /\ result.val.name = expr.name
        /\ result.val.args = expr.args

C10_Witness ==
    /\ pc = "function_call"
    /\ Text(<<"f", "n", "(", "1", " ", " ", ",", " ", " ", "1", ",", "\"", "a", "\"", ")">>)
    /\ result.tag = "Ok"
    /\ result.val.args = <<ConstInt(1), ConstInt(1), ConstStr(<<"a">>)>>

\* the input a successful parser consumed
Consumed == Take(src, Len(src) - Len(result.rest))

\* C11: Construct::function_call returns a call only when the input it
\* consumed ends with the ) that closes the argument list, and it fails on
\* every input that holds no ).
C11_ClosedByParenthesis ==
    pc = "function_call" =>
        /\ result.tag = "Ok" =>
              /\ Consumed # <<>>
              /\ Consumed[Len(Consumed)] = ")"
              /\ OpenCount(Consumed, 0) = 0
        /\ (\A k \in 1..Len(src) : src[k] # ")") => result.tag # "Ok"

\* the number of commas of t
RECURSIVE Commas(_)
Commas(t) ==
    IF t = <<>> THEN 0 ELSE (IF Head(t) = "," THEN 1 ELSE 0) + Commas(Tail(t))

\* the first character of t that is no space, "" when there is none
FirstNonSpace(t) ==
    IF RunLen(t, SpaceChars) = Len(t) THEN "" ELSE t[RunLen(t, SpaceChars) + 1]

\* the arguments a non-empty list rule returned
ListArgs == IF pc = "function_call_args" THEN result.val.args ELSE result.val

\* C12: when function_call_args or args_dec_non_empty succeeds, the list it
\* read holds one argument more than it holds commas and every comma is
\* followed by an argument; a list whose last comma is followed by no
\* argument makes both rules fail.
C12_NoDanglingComma ==
    pc \in {"function_call_args", "args_dec_non_empty"} =>
        /\ result.tag = "Ok" =>
              /\ Len(ListArgs) = Commas(Consumed) + 1
              /\ \A k \in 1..Len(Consumed) :
                    Consumed[k] = "," => FirstNonSpace(Drop(src, k)) \notin {"", ")", ","}
        /\ expr.kind = "Dangling" => result.tag \in {"Error", "Failure"}

\* (a:int, b:x,) given to args_dec_non_empty
C12_Witness ==
    /\ pc = "args_dec_non_empty"
    /\ expr.kind = "Dangling"
    /\ Text(<<"(", "a", ":", "i", "n", "t", " ", " ", ",", "b", ":", "x", ",", ")">>)
    /\ result.tag = "Error"

\* the text begins with the keyword mut, a word of its own
BeginsWithMut(t) == Len(t) > 3 /\ Take(t, 3) = Mut /\ t[4] = " "

\* C13: Construct::var_assignment returns a mutable assignment exactly when
\* the input begins with the word mut followed by the identifier; [mut] id =
\* value; gives the assignment of value to id, mutable with mut and immutable
\* without, and an identifier that only starts with the letters mut is the
\* symbol of an immutable assignment.
C13_MutableIffMutKeyword ==
    pc = "var_assignment" =>
        /\ result.tag = "Ok" => (result.val.mutable <=> BeginsWithMut(src))
        /\ (expr.kind = "Assign" /\ expr.word # Mutable /\ expr.semicolon) =>
              result = NomOk(<<>>, [kind |-> "VarAssign", mutable |-> expr.word = Mut,
                                    symbol |-> expr.symbol, value |-> expr.value])

\* mut mut_x  =  12;
C13_Witness ==
    /\ pc = "var_assignment"
    /\ Text(<<"m", "u", "t", " ", "m", "u", "t", "_", "x", " ", " ", "=", " ", " ",
               "1", "2", ";">>)
    /\ BeginsWithMut(src)
    /\ result.tag = "Ok"
    /\ result.val.mutable
    /\ result.val.symbol = <<"m", "u", "t", "_", "x">>

\* C14: Construct::var_assignment accepts [mut] id = value ; with no space or
\* several on either side of the =, and fails when the ; after the value is
\* missing or when the first word is mutable instead of mut; what it accepts
\* ends with the ;.
C14_SpacesAndSemicolon ==
    pc = "var_assignment" =>
        /\ (expr.kind = "Assign" /\ expr.word # Mutable /\ expr.semicolon) =>
              result.tag = "Ok"
        /\ (expr.kind = "Assign" /\ (expr.word = Mutable \/ ~expr.semicolon)) =>
              result.tag \in {"Error", "Failure"}
        /\ result.tag = "Ok" => (Consumed # <<>> /\ Consumed[Len(Consumed)] = ";")

\* mut x=12 without its semicolon
C14_Witness ==
    /\ pc = "var_assignment"
    /\ Text(<<"m", "u", "t", " ", "x", "=", "1", "2">>)
    /\ expr.kind = "Assign"
    /\ ~expr.semicolon
    /\ result.tag = "Error"

\* C15: on func name(a1: t1, ..., aN: tN) [-> type] block,
\* Construct::function_declaration returns the FunctionDec of that name with
\* the N (name, type) pairs in declared order and the type after the arrow,
\* void without an arrow.
C15_DeclarationRoundTrip ==
    (pc = "function_declaration" /\ expr.kind = "FunctionDec") =>
        /\ result.tag = "Ok"
        /\ result.val.name = expr.name
        /\ result.val.args = expr.args
        /\ result.val.ty = expr.ty

AfterSpaces(t) == Drop(t, RunLen(t, SpaceChars))
ArrowFirst(t) == Len(t) >= 2 /\ t[1] = "-" /\ t[2] = ">"

\* what follows the arrow of a text that has one after its leading spaces
AfterArrow(t) == AfterSpaces(Drop(AfterSpaces(t), 2))

TypeNames == {"A", "B"}
InstNames == {"A", "B", "C"}
FieldValues == {ConstInt(1), ConstInt(2)}

\* a TypeDec with n fields
TypeDecNew(name, n) ==
    [name |-> name, fields |-> [k \in 1..n |-> [name |-> Decimal(k), ty |-> "int"]]]

JinkoErrorNew(kind, msg, loc, in) ==
    [tag |-> "Err", kind |-> kind, msg |-> msg, loc |-> loc, input |-> in]

TypeInstantiationNew(type_name) == [type_name |-> type_name, fields |-> <<>>]
add_field(ti, a) == [ti EXCEPT !.fields = Append(@, a)]

\* Interpreter::get_type
get_type(tt, name) == IF name \in DOMAIN tt THEN Some(tt[name]) ELSE None

\* Interpreter::add_type: a name is registered once
add_type(tt, dec) ==
    [n \in DOMAIN tt \cup {dec.name} |-> IF n = dec.name THEN dec ELSE tt[n]]

get_declaration(ti, tt) ==
    IF get_type(tt, ti.type_name).some
    THEN [tag |-> "Ok", val |-> get_type(tt, ti.type_name).v]
    ELSE JinkoErrorNew("Interpreter", <<"Cannot find type ", ti.type_name>>,
                       None, ti.type_name)

\* The message of format!, one element for each piece of text and each
\* argument formatted (the quotes around the name left out).

\* check_fields_count with the two counts exchanged in the message
check_fields_count_swapped(ti, type_dec) ==
    IF Len(ti.fields) = Len(type_dec.fields)
    THEN [tag |-> "Ok", val |-> <<>>]
    ELSE JinkoErrorNew("Interpreter",
                       <<"Wrong number of arguments for call to function ",
                         ti.type_name, ": Expected ", Decimal(Len(ti.fields)),
                         ", got ", Decimal(Len(type_dec.fields))>>,
                       None, "")

check_fields_count(ti, type_dec) ==
    IF Len(ti.fields) = Len(type_dec.fields)
    THEN [tag |-> "Ok", val |-> <<>>]
    ELSE JinkoErrorNew("Interpreter",
                       <<"Wrong number of arguments for call to function ",
                         ti.type_name, ": Expected ", Decimal(Len(type_dec.fields)),
                         ", got ", Decimal(Len(ti.fields))>>,
                       None, "")

execute(ti, tt) ==
    Try(get_declaration(ti, tt), LAMBDA type_dec :
    Try(check_fields_count(ti, type_dec.val), LAMBDA counted :
        JinkoErrorNew("Interpreter",
                      "Execution for type_instantiation is not yet available",
                      None, "")))

InitInterp ==
    /\ src = <<>>
    /\ expr = NoExpr
    /\ input = <<>>
    /\ operators = <<>>
    /\ output = <<>>
    /\ pc = "build"
    /\ result = NoResult
    /\ types = <<>>
    /\ inst = NoExpr
    /\ ret = NoResult
    /\ type_id = NoExpr
    /\ call_args = <<>>

\* a TypeDec is executed: it registers itself in the type table
AddType ==
    /\ pc = "build"
    /\ \E name \in TypeNames \ DOMAIN types, n \in 0..MaxFields :
          types' = add_type(types, TypeDecNew(name, n))
    /\ UNCHANGED <<src, expr, input, operators, output, pc, result, inst, ret, type_id, call_args>>

NewInstantiation ==
    /\ \E name \in InstNames : inst' = TypeInstantiationNew(name)
    /\ pc' = "build"
    /\ ret' = NoResult
    /\ UNCHANGED <<src, expr, input, operators, output, result, types, type_id, call_args>>

AddField ==
    /\ pc = "build"
    /\ inst # NoExpr
    /\ Len(inst.fields) < MaxFields
    /\ \E a \in FieldValues : inst' = add_field(inst, a)
    /\ UNCHANGED <<src, expr, input, operators, output, pc, result, types, ret, type_id, call_args>>

Execute ==
    /\ pc = "build"
    /\ inst # NoExpr
    /\ ret' = execute(inst, types)
    /\ pc' = "executed"
    /\ UNCHANGED <<src, expr, input, operators, output, result, types, inst, type_id, call_args>>

NextInterp == AddType \/ NewInstantiation \/ AddField \/ Execute

SpecInterp == InitInterp /\ [][NextInterp]_vars

(***************************************************************************)
(* Properties of TypeInstantiation::execute                                *)
(***************************************************************************)
Executed == pc = "executed"
Resolved == inst.type_name \in DOMAIN types
Declared == Len(types[inst.type_name].fields)
Supplied == Len(inst.fields)

\* C7: executing a TypeInstantiation whose number of values differs from the
\* number of fields of its TypeDec returns an Interpreter error whose message
\* gives the declared count as expected and the supplied count as got.
C7_CountMismatch ==
    (Executed /\ Resolved /\ Supplied # Declared) =>
        /\ ret.tag = "Err"
        /\ ret.kind = "Interpreter"
        /\ SubSeq(ret.msg, 3, 6) =
             <<": Expected ", Decimal(Declared), ", got ", Decimal(Supplied)>>

C7_Witness ==
    /\ Executed
    /\ Resolved
    /\ Declared = 2
    /\ Supplied = 3
    /\ ret.tag = "Err"
    /\ ret.msg[4] = <<"2">>
    /\ ret.msg[6] = <<"3">>

\* C8: executing a TypeInstantiation whose type is registered and whose
\* number of values equals the declared number of fields returns no error.
C8_MatchingCountSucceeds ==
    (Executed /\ Resolved /\ Supplied = Declared) => ret.tag = "Ok"

(***************************************************************************)
(* TypeId: an id is a string, here the sequence of its characters          *)
(***************************************************************************)
MaxIdLen == 8    \* longest id a TypeId is renamed to

PRIMITIVE_TYPES ==
    <<<<"b", "o", "o", "l">>, <<"i", "n", "t">>, <<"f", "l", "o", "a", "t">>,
      <<"c", "h", "a", "r">>, <<"s", "t", "r", "i", "n", "g">>>>

\* the slice method contains
contains(array, x) == \E k \in 1..Len(array) : array[k] = x

TypeIdNew(id) == [id |-> id]

is_primitive(self) == contains(PRIMITIVE_TYPES, self.id)

\* prefix with the primitive types renamed like the others
prefix_every_id(self, p) == [self EXCEPT !.id = p \o @]

prefix(self, p) ==
    IF contains(PRIMITIVE_TYPES, self.id) THEN self ELSE [self EXCEPT !.id = p \o @]

TypeIdNames ==
    {PRIMITIVE_TYPES[k] : k \in 1..Len(PRIMITIVE_TYPES)}
        \cup {<<"n", "t">>, <<"T">>, <<"I", "n", "t">>, <<>>}
Prefixes == {<<>>, <<"i">>, <<"s", "t", "d", "_">>}

InitTypeId ==
    /\ src = <<>>
    /\ expr = NoExpr
    /\ input = <<>>
    /\ operators = <<>>
    /\ output = <<>>
    /\ pc = "new"
    /\ result = NoResult
    /\ types = <<>>
    /\ inst = NoExpr
    /\ ret = NoResult
    /\ type_id \in {TypeIdNew(id) : id \in TypeIdNames}
    /\ call_args = <<>>

Prefix ==
    /\ \E p \in Prefixes :
          /\ Len(p) + Len(type_id.id) <= MaxIdLen
          /\ type_id' = prefix(type_id, p)
          /\ call_args' = <<p>>
    /\ pc' = "prefix"
    /\ ret' = NoResult
    /\ UNCHANGED <<src, expr, input, operators, output, result, types, inst>>

IsPrimitive ==
    /\ ret' = is_primitive(type_id)
    /\ pc' = "is_primitive"
    /\ call_args' = <<>>
    /\ UNCHANGED <<src, expr, input, operators, output, result, types, inst, type_id>>

NextTypeId == Prefix \/ IsPrimitive

SpecTypeId == InitTypeId /\ [][NextTypeId]_vars

(***************************************************************************)
(* Properties of TypeId                                                    *)
(***************************************************************************)
IsPrimitiveName(id) ==
    \/ id = <<"b", "o", "o", "l">>
    \/ id = <<"i", "n", "t">>
    \/ id = <<"f", "l", "o", "a", "t">>
    \/ id = <<"c", "h", "a", "r">>
    \/ id = <<"s", "t", "r", "i", "n", "g">>

\* C17: prefix leaves the id of a TypeId as it is when the id is bool, int,
\* float, char or string, and otherwise makes it the prefix followed by the
\* old id; is_primitive is true exactly for those five ids.
C17_PrefixSparesPrimitives ==
    /\ [][pc' = "prefix" =>
            type_id'.id = IF IsPrimitiveName(type_id.id) THEN type_id.id
                          ELSE call_args'[1] \o type_id.id]_vars
    /\ [](pc = "is_primitive" => (ret <=> IsPrimitiveName(type_id.id)))

\* int, left as it is by the prefix std_
C17_Witness ==
    /\ pc = "prefix"
    /\ call_args = <<<<"s", "t", "d", "_">>>>
    /\ type_id.id = <<"i", "n", "t">>

(***************************************************************************)
(* The string builtins.  A string is the sequence of its characters and    *)
(* U+00E9 stands for a character of two bytes in UTF-8.                    *)
(***************************************************************************)
MaxStr == 2      \* most characters of a string given to a builtin

StringChars == {"j", "k", "U+00E9"}

\* String::len, the number of bytes
RECURSIVE len(_)
len(s) == IF s = <<>> THEN 0 ELSE (IF Head(s) = "U+00E9" THEN 2 ELSE 1) + len(Tail(s))

\* ToObjectInstance and FromObjectInstance of JkString, JkInt and JkBool
to_instance(ty, v) == [ty |-> ty, data |-> v]
from_instance(instance) == instance.data

\* Instruction::execute of a string constant
constant_execute(c) == Some(to_instance("string", c.sv))

string_len(a) ==
    Some(to_instance("int", len(from_instance(constant_execute(a[1]).v))))

\* string_concat with the two strings exchanged
string_concat_swapped(a) ==
    Some(to_instance("string",
                     from_instance(constant_execute(a[2]).v)
                         \o from_instance(constant_execute(a[1]).v)))

string_concat(a) ==
    Some(to_instance("string",
                     from_instance(constant_execute(a[1]).v)
                         \o from_instance(constant_execute(a[2]).v)))

string_is_empty(a) ==
    Some(to_instance("bool", len(from_instance(constant_execute(a[1]).v)) = 0))

string_equals(a) ==
    Some(to_instance("bool",
                     from_instance(constant_execute(a[1]).v)
                         = from_instance(constant_execute(a[2]).v)))

InitBuiltins ==
    /\ src = <<>>
    /\ expr = NoExpr
    /\ input = <<>>
    /\ operators = <<>>
    /\ output = <<>>
    /\ pc = "builtins"
    /\ result = NoResult
    /\ types = <<>>
    /\ inst = NoExpr
    /\ ret = NoResult
    /\ type_id = NoExpr
    /\ call_args \in {<<ConstStr(a), ConstStr(b)>> :
                        a \in Texts(StringChars, MaxStr), b \in Texts(StringChars, MaxStr)}

Builtin(name, value) ==
    /\ pc = "builtins"
    /\ pc' = name
    /\ ret' = value
    /\ UNCHANGED <<src, expr, input, operators, output, result, types, inst, type_id, call_args>>

StringLen == Builtin("__builtin_string_len", string_len(call_args))
StringConcat == Builtin("__builtin_string_concat", string_concat(call_args))
StringIsEmpty == Builtin("__builtin_string_is_empty", string_is_empty(call_args))
StringEquals == Builtin("__builtin_string_equals", string_equals(call_args))

NextBuiltins == StringLen \/ StringConcat \/ StringIsEmpty \/ StringEquals

SpecBuiltins == InitBuiltins /\ [][NextBuiltins]_vars

(***************************************************************************)
(* Properties of the string builtins                                       *)
(***************************************************************************)
Arg0 == call_args[1].sv
Arg1 == call_args[2].sv

\* C18: on all strings of up to MaxStr characters, __builtin_string_len
\* returns the length of its argument as the host counts it (one for each
\* character and one more for each character of two bytes),
\* __builtin_string_concat its first argument followed by its second,
\* __builtin_string_is_empty true exactly for the string without characters
\* and __builtin_string_equals true exactly for two equal strings.
C18_StringBuiltins ==
    /\ pc = "__builtin_string_len" =>
          ret = Some([ty |-> "int",
                      data |-> Len(Arg0)
                               + Cardinality({k \in 1..Len(Arg0) : Arg0[k] = "U+00E9"})])
    /\ pc = "__builtin_string_concat" =>
          ret = Some([ty |-> "string",
                      data |-> [k \in 1..(Len(Arg0) + Len(Arg1)) |->
                                  IF k <= Len(Arg0) THEN Arg0[k] ELSE Arg1[k - Len(Arg0)]]])
    /\ pc = "__builtin_string_is_empty" =>
          ret = Some([ty |-> "bool", data |-> Len(Arg0) = 0])
    /\ pc = "__builtin_string_equals" =>
          ret = Some([ty |-> "bool", data |-> Arg0 = Arg1])

\* concat of two different strings
C18_Witness ==
    /\ pc = "__builtin_string_concat"
    /\ Arg0 = <<"j">>
    /\ Arg1 = <<"k", "U+00E9">>
    /\ ret.v.data = <<"j", "k", "U+00E9">>

====
